---- MODULE Spec2Model ----
(***************************************************************************)
(* Model of src/src/bad_safe_deque.rs: a doubly-linked deque whose nodes   *)
(* are Rc<RefCell<Node<T>>>.                                               *)
(*                                                                         *)
(* The heap is an arena `nodes` indexed by node id; each slot carries the  *)
(* Node fields (elem, next, prev), the Rc strong count (strong) and the    *)
(* RefCell borrow flag (borrow: k > 0 is k shared borrows, -1 is one       *)
(* exclusive borrow, 0 is unborrowed).  strong = 0 marks a free slot.      *)
(*                                                                         *)
(* A caller may keep a Ref/RefMut returned by a peek alive (held, heldMut) *)
(* and then drop it, or leak it with mem::forget, which leaves the borrow  *)
(* flag set for ever.  While a Ref is alive only &self methods can be      *)
(* called; while a RefMut is alive nothing can be called (the signatures   *)
(* of the methods decide this at compile time).                            *)
(*                                                                         *)
(* Runs are of two kinds.  With limit = 0 the run is unbounded in length:  *)
(* the deque holds at most MaxLen elements and at most MaxViews views are  *)
(* outstanding.  With limit > 0 the run makes at most limit calls, never   *)
(* peeks, and logs every call in hist.  `last` is the last call in both.   *)
(*                                                                         *)
(* A panic ends the run: `panicked` becomes TRUE with the heap as the      *)
(* unwinding leaves it, and no operation is enabled afterwards.            *)
(*                                                                         *)
(* The other lists of the crate are modelled beside the deque, and `run`   *)
(* says which structure a behaviour exercises:                             *)
(*   "queue"      ok_unsafe_singly_linked_queue.rs (qhead, qtail, qnodes;  *)
(*                qub records a dereference of a freed or null pointer),   *)
(*   "stack"      ok_single_linked_list.rs (shead, snodes),                *)
(*   "bad_stack"  bad_single_linked_list.rs (bhead, bnodes),               *)
(*   "persistent" persistent_linked_list.rs (plists, pnodes: several List  *)
(*                values sharing Rc nodes, numbered in order of reach).    *)
(* `released` lists what the deque's destructor has taken out so far.      *)
(***************************************************************************)
EXTENDS Integers, Sequences, FiniteSets, TLC

\* ---- bounds ----
MaxLen == 3      \* elements in the deque
MaxCalls == 5    \* calls in a logged run
MaxVal == 2      \* elements are drawn from 1..MaxVal
MaxViews == 2    \* views outstanding at one time, alive or forgotten
MaxLists == 3    \* persistent lists alive at one time
MaxNodes == 2    \* nodes of persistent lists allocated at one time

None == 0
Values == 1..MaxVal
\* a push is called with fewer than MaxLen nodes allocated
NodeIds == 1..MaxLen

\* Box::new returns a fresh allocation on every push of a logged run
BoxIds == 1..MaxCalls

\* an allocation never made, one that is live, one that has been freed
Box0 == [elem |-> None, next |-> None, state |-> "unused"]

\* the variables of type persistent_linked_list List the caller has
ListIds == 1..MaxLists

\* the Rc<Node> allocations of persistent lists
PNodeIds == 1..MaxNodes

\* a variable holding no list; a free Rc<Node> slot
NoList == [live |-> FALSE, head |-> None]

PFree == [elem |-> None, next |-> None, strong |-> 0]

VARIABLES
    head,      \* List.head : None or a node id
    tail,      \* List.tail : None or a node id
    nodes,     \* the heap: node id -> [elem, next, prev, strong, borrow]
    held,      \* node id -> number of live Ref views the caller holds
    heldMut,   \* node id of the live RefMut view the caller holds, or None
    heldFrom,  \* the call that returned the live RefMut, or "none"
    leakedRef, \* node id -> number of Ref views leaked with mem::forget
    leakedMut, \* node id -> number of RefMut views leaked with mem::forget
    mode,      \* "list": a List; "iter": moved into an IntoIter; "dropping":
               \* in drop; "dropped": drop has returned (of the deque, or
               \* of the queue in a run of the queue)
    iterSrc,   \* front-to-back elements at the time of into_iter
    panicked,  \* a panic has ended the run
    limit,     \* number of calls a logged run may make; 0 in an unbounded run
    hist,      \* log of the calls of a logged run
    last,      \* the last call: its name, argument, returned value (None for
               \* Option::None) and whether it panicked
    released,  \* the sets of nodes freed by the pop_front calls of drop, in order
    run,       \* the list type the run exercises: "deque", "queue", "stack",
               \* "bad_stack" or "persistent"
    qhead,     \* ok_unsafe_singly_linked_queue List.head : None (null) or a node id
    qtail,     \* ok_unsafe_singly_linked_queue List.tail : None (null) or a node id
    qnodes,    \* its allocations: node id -> [elem, next, state]
    qub,       \* it has dereferenced or freed a pointer to no live allocation
    shead,     \* ok_single_linked_list List.head : None or a node id
    snodes,    \* its boxes: node id -> [elem, next, state]
    bhead,     \* bad_single_linked_list List.head : None (Link::Empty) or a node id
    bnodes,    \* its boxes: node id -> [elem, next, state]
    plists,    \* persistent_linked_list: list handle -> [live, head]
    pnodes     \* its nodes: node id -> [elem, next, strong]

vars == <<head, tail, nodes, held, heldMut, heldFrom, leakedRef, leakedMut,
          mode, iterSrc, panicked, limit, hist, last, released,
          run, qhead, qtail, qnodes, qub, shead, snodes, bhead, bnodes, plists, pnodes>>

\* the state of the lists of the other types
otherLists == <<run, qhead, qtail, qnodes, qub, shead, snodes, bhead, bnodes, plists, pnodes>>

\* the state of the deque and of its caller's views
dequeVars == <<head, tail, nodes, held, heldMut, heldFrom, leakedRef, leakedMut,
               mode, iterSrc, panicked, released>>

\* ---- the heap ----

FreeSlot == [elem |-> None, next |-> None, prev |-> None, strong |-> 0, borrow |-> 0]

FreeIds(h) == {n \in NodeIds : h[n].strong = 0}

\* Rc::new may return any free address.  The model picks one: the slot
\* `want` if it is free, else the lowest free slot.
NewId(h, want) ==
    IF want \in FreeIds(h) THEN want
    ELSE CHOOSE n \in FreeIds(h) : \A m \in FreeIds(h) : n <= m

\* the slots before and after slot n, cyclically (slot 1 for an empty deque)
SlotBefore(n) == IF n = None THEN 1 ELSE IF n = 1 THEN MaxLen ELSE n - 1

SlotAfter(n) == IF n = None THEN 1 ELSE IF n = MaxLen THEN 1 ELSE n + 1

\* Node::new : Rc::new(RefCell::new(Node {elem, prev: None, next: None}))
Node_new(h, n, e) ==
    [h EXCEPT ![n] = [elem |-> e, next |-> None, prev |-> None, strong |-> 1, borrow |-> 0]]

\* Rc::clone whose extra handle is never dropped
RcClone_twice(h, n) == [h EXCEPT ![n].strong = @ + 2]

\* Rc::clone on a Some(rc)
RcClone(h, n) == [h EXCEPT ![n].strong = @ + 1]

\* dropping an Option<Rc<RefCell<Node>>>: the last owner drops the Node,
\* which drops its fields next and prev in declaration order
RECURSIVE RcDrop(_, _)
RcDrop(h, n) ==
    IF n = None THEN h
    ELSE LET h1 == [h EXCEPT ![n].strong = @ - 1] IN
         IF h1[n].strong > 0 THEN h1
         ELSE LET nx == h1[n].next
                  pv == h1[n].prev
                  h2 == [h1 EXCEPT ![n] = FreeSlot]
              IN RcDrop(RcDrop(h2, nx), pv)

\* borrow_mut that only refuses a second writer
BorrowMutOk_readers(h, n) == h[n].borrow >= 0

\* borrow_mut that never refuses
BorrowMutOk_unchecked(h, n) == TRUE

\* borrow_mut that is refused while any node of the deque is borrowed
BorrowMutOk_global(h, n) == \A m \in NodeIds : h[m].borrow = 0

\* RefCell::borrow_mut succeeds only on an unborrowed cell
BorrowMutOk(h, n) == h[n].borrow = 0

\* RefCell::borrow succeeds unless the cell is exclusively borrowed
BorrowOk(h, n) == h[n].borrow >= 0

\* dropping a Ref returns its shared borrow
ReleaseShared(h, n) == [h EXCEPT ![n].borrow = @ - 1]

\* dropping a RefMut returns the exclusive borrow
ReleaseExclusive(h, n) == [h EXCEPT ![n].borrow = 0]

\* no Rc::try_unwrap was reached
NoUnwrap == [node |-> None, owners |-> 0, refs |-> 0]

\* the result of one List method: the List fields, the heap, the returned
\* value, whether the call panicked, and what Rc::try_unwrap found
Outcome(hd, tl, h, r, p) ==
    [head |-> hd, tail |-> tl, nodes |-> h, ret |-> r, panic |-> p, unwrap |-> NoUnwrap]

\* the references to node n held by the List fields and by the nodes
RefsTo(hd, tl, h, n) ==
    (IF hd = n THEN 1 ELSE 0) + (IF tl = n THEN 1 ELSE 0)
        + Cardinality({m \in NodeIds : h[m].strong > 0 /\ h[m].next = n})
        + Cardinality({m \in NodeIds : h[m].strong > 0 /\ h[m].prev = n})

\* Rc::try_unwrap(old) is reached with the List fields hd and tl and heap
\* h: the strong count of old, and the references to old left in the deque
AtUnwrap(hd, tl, h, old) ==
    [node |-> old, owners |-> h[old].strong, refs |-> RefsTo(hd, tl, h, old)]

\* ---- List methods, as functions of the List fields and the heap ----

\* Rc::try_unwrap(old).ok().unwrap().into_inner().elem
TryUnwrapElem(hd, tl, h, old) ==
    IF h[old].strong = 1
    THEN \* Ok: the Node is moved out; elem is returned, next and prev are dropped
         LET h1 == [h EXCEPT ![old] = FreeSlot] IN
         [Outcome(hd, tl, RcDrop(RcDrop(h1, h[old].next), h[old].prev), h[old].elem, FALSE)
             EXCEPT !.unwrap = AtUnwrap(hd, tl, h, old)]
    ELSE \* Err(rc).ok() drops the rc and unwrap() panics on None
         [Outcome(hd, tl, RcDrop(h, old), None, TRUE) EXCEPT !.unwrap = AtUnwrap(hd, tl, h, old)]

\* push_front without line 49: the new node's next is never set
push_front_no_next(hd, tl, h, e) ==
    LET new_head == NewId(h, SlotBefore(hd))
        h0 == Node_new(h, new_head, e)
        old_head == hd
    IN IF old_head # None
       THEN LET h1 == RcClone(h0, new_head) IN
            IF ~BorrowMutOk(h1, old_head)
            THEN Outcome(None, tl, RcDrop(RcDrop(RcDrop(h1, new_head), old_head), new_head), None, TRUE)
            ELSE LET h2 == RcDrop([h1 EXCEPT ![old_head].prev = new_head], h1[old_head].prev)
                 IN Outcome(new_head, tl, RcDrop(h2, old_head), None, FALSE)
       ELSE Outcome(new_head, new_head, RcDrop(RcClone(h0, new_head), tl), None, FALSE)

push_front(hd, tl, h, e) ==
    LET new_head == NewId(h, SlotBefore(hd))
        h0 == Node_new(h, new_head, e)
        old_head == hd                                   \* self.head.take()
    IN IF old_head # None
       THEN LET h1 == RcClone(h0, new_head) IN           \* new_head.clone()
            IF ~BorrowMutOk(h1, old_head)
            THEN \* old_head.borrow_mut() panics; the clone, old_head and new_head are dropped
                 Outcome(None, tl, RcDrop(RcDrop(RcDrop(h1, new_head), old_head), new_head), None, TRUE)
            ELSE LET h2 == RcDrop([h1 EXCEPT ![old_head].prev = new_head], h1[old_head].prev) IN
                 IF ~BorrowMutOk(h2, new_head)
                 THEN Outcome(None, tl, RcDrop(RcDrop(h2, old_head), new_head), None, TRUE)
                 ELSE LET h3 == RcDrop([h2 EXCEPT ![new_head].next = old_head], h2[new_head].next)
                      IN Outcome(new_head, tl, h3, None, FALSE)
       ELSE \* self.tail = Some(new_head.clone()); self.head = Some(new_head)
            Outcome(new_head, new_head, RcDrop(RcClone(h0, new_head), tl), None, FALSE)

\* pop_front without line 71: the tail handle survives the last pop
pop_front_keep_tail(hd, tl, h) ==
    LET old_head == hd IN
    IF old_head = None THEN Outcome(None, tl, h, None, FALSE)
    ELSE IF ~BorrowMutOk(h, old_head)
    THEN Outcome(None, tl, RcDrop(h, old_head), None, TRUE)
    ELSE LET new_head == h[old_head].next
             h1 == [h EXCEPT ![old_head].next = None, ![old_head].borrow = -1]
         IN IF new_head # None
            THEN IF ~BorrowMutOk(h1, new_head)
                 THEN Outcome(None, tl,
                              RcDrop(RcDrop([h1 EXCEPT ![old_head].borrow = 0], new_head), old_head),
                              None, TRUE)
                 ELSE LET h2 == RcDrop([h1 EXCEPT ![new_head].prev = None], h1[new_head].prev)
                          h3 == [h2 EXCEPT ![old_head].borrow = 0]
                      IN TryUnwrapElem(new_head, tl, h3, old_head)
            ELSE TryUnwrapElem(None, tl, [h1 EXCEPT ![old_head].borrow = 0], old_head)

pop_front(hd, tl, h) ==
    LET old_head == hd IN                                \* self.head.take()
    IF old_head = None THEN Outcome(None, tl, h, None, FALSE)
    ELSE IF ~BorrowMutOk(h, old_head)
    THEN \* old_head.borrow_mut() panics; old_head is dropped
         Outcome(None, tl, RcDrop(h, old_head), None, TRUE)
    ELSE LET new_head == h[old_head].next                \* next.take()
             \* the RefMut of the match scrutinee lives to the end of the match
             h1 == [h EXCEPT ![old_head].next = None, ![old_head].borrow = -1]
         IN IF new_head # None
            THEN IF ~BorrowMutOk(h1, new_head)
                 THEN \* new_head.borrow_mut() panics; new_head, the RefMut and old_head are dropped
                      Outcome(None, tl,
                              RcDrop(RcDrop([h1 EXCEPT ![old_head].borrow = 0], new_head), old_head),
                              None, TRUE)
                 ELSE LET h2 == RcDrop([h1 EXCEPT ![new_head].prev = None], h1[new_head].prev)
                          h3 == [h2 EXCEPT ![old_head].borrow = 0]
                      IN TryUnwrapElem(new_head, tl, h3, old_head)
            ELSE LET h2 == RcDrop(h1, tl)                \* self.tail.take()
                     h3 == [h2 EXCEPT ![old_head].borrow = 0]
                 IN TryUnwrapElem(None, None, h3, old_head)

\* push_back without line 106: the old tail's next is never set
push_back_no_link(hd, tl, h, e) ==
    LET new_tail == NewId(h, SlotAfter(tl))
        h0 == Node_new(h, new_tail, e)
        old_tail == tl
    IN IF old_tail # None
       THEN IF ~BorrowMutOk(h0, new_tail)
            THEN Outcome(hd, None, RcDrop(RcDrop(h0, old_tail), new_tail), None, TRUE)
            ELSE LET h3 == RcDrop([h0 EXCEPT ![new_tail].prev = old_tail], h0[new_tail].prev)
                 IN Outcome(hd, new_tail, h3, None, FALSE)
       ELSE Outcome(new_tail, new_tail, RcDrop(RcClone(h0, new_tail), hd), None, FALSE)

\* push_back that forgets the RefMut of the old tail
push_back_forget(hd, tl, h, e) ==
    LET new_tail == NewId(h, SlotAfter(tl))
        h0 == Node_new(h, new_tail, e)
        old_tail == tl
    IN IF old_tail # None
       THEN LET h1 == RcClone(h0, new_tail) IN
            IF ~BorrowMutOk(h1, old_tail)
            THEN Outcome(hd, None, RcDrop(RcDrop(RcDrop(h1, new_tail), old_tail), new_tail), None, TRUE)
            ELSE LET h2 == RcDrop([h1 EXCEPT ![old_tail].next = new_tail, ![old_tail].borrow = -1],
                                  h1[old_tail].next) IN
                 IF ~BorrowMutOk(h2, new_tail)
                 THEN Outcome(hd, None, RcDrop(RcDrop(h2, old_tail), new_tail), None, TRUE)
                 ELSE LET h3 == RcDrop([h2 EXCEPT ![new_tail].prev = old_tail], h2[new_tail].prev)
                      IN Outcome(hd, new_tail, h3, None, FALSE)
       ELSE Outcome(new_tail, new_tail, RcDrop(RcClone(h0, new_tail), hd), None, FALSE)

push_back(hd, tl, h, e) ==
    LET new_tail == NewId(h, SlotAfter(tl))
        h0 == Node_new(h, new_tail, e)
        old_tail == tl                                   \* self.tail.take()
    IN IF old_tail # None
       THEN LET h1 == RcClone(h0, new_tail) IN
            IF ~BorrowMutOk(h1, old_tail)
            THEN Outcome(hd, None, RcDrop(RcDrop(RcDrop(h1, new_tail), old_tail), new_tail), None, TRUE)
            ELSE LET h2 == RcDrop([h1 EXCEPT ![old_tail].next = new_tail], h1[old_tail].next) IN
                 IF ~BorrowMutOk(h2, new_tail)
                 THEN Outcome(hd, None, RcDrop(RcDrop(h2, old_tail), new_tail), None, TRUE)
                 ELSE LET h3 == RcDrop([h2 EXCEPT ![new_tail].prev = old_tail], h2[new_tail].prev)
                      IN Outcome(hd, new_tail, h3, None, FALSE)
       ELSE \* self.head = Some(new_tail.clone()); self.tail = Some(new_tail)
            Outcome(new_tail, new_tail, RcDrop(RcClone(h0, new_tail), hd), None, FALSE)

\* pop_back without line 125: the head handle survives the last pop
pop_back_keep_head(hd, tl, h) ==
    LET old_tail == tl IN
    IF old_tail = None THEN Outcome(hd, None, h, None, FALSE)
    ELSE IF ~BorrowMutOk(h, old_tail)
    THEN Outcome(hd, None, RcDrop(h, old_tail), None, TRUE)
    ELSE LET new_tail == h[old_tail].prev
             h1 == [h EXCEPT ![old_tail].prev = None, ![old_tail].borrow = -1]
         IN IF new_tail # None
            THEN IF ~BorrowMutOk(h1, new_tail)
                 THEN Outcome(hd, None,
                              RcDrop(RcDrop([h1 EXCEPT ![old_tail].borrow = 0], new_tail), old_tail),
                              None, TRUE)
                 ELSE LET h2 == RcDrop([h1 EXCEPT ![new_tail].next = None], h1[new_tail].next)
                          h3 == [h2 EXCEPT ![old_tail].borrow = 0]
                      IN TryUnwrapElem(hd, new_tail, h3, old_tail)
            ELSE TryUnwrapElem(hd, None, [h1 EXCEPT ![old_tail].borrow = 0], old_tail)

\* pop_back that removes at the front
pop_back_front(hd, tl, h) == pop_front(hd, tl, h)

pop_back(hd, tl, h) ==
    LET old_tail == tl IN                                \* self.tail.take()
    IF old_tail = None THEN Outcome(hd, None, h, None, FALSE)
    ELSE IF ~BorrowMutOk(h, old_tail)
    THEN Outcome(hd, None, RcDrop(h, old_tail), None, TRUE)
    ELSE LET new_tail == h[old_tail].prev                \* prev.take()
             h1 == [h EXCEPT ![old_tail].prev = None, ![old_tail].borrow = -1]
         IN IF new_tail # None
            THEN IF ~BorrowMutOk(h1, new_tail)
                 THEN Outcome(hd, None,
                              RcDrop(RcDrop([h1 EXCEPT ![old_tail].borrow = 0], new_tail), old_tail),
                              None, TRUE)
                 ELSE LET h2 == RcDrop([h1 EXCEPT ![new_tail].next = None], h1[new_tail].next)
                          h3 == [h2 EXCEPT ![old_tail].borrow = 0]
                      IN TryUnwrapElem(hd, new_tail, h3, old_tail)
            ELSE LET h2 == RcDrop(h1, hd)                \* self.head.take()
                     h3 == [h2 EXCEPT ![old_tail].borrow = 0]
                 IN TryUnwrapElem(None, None, h3, old_tail)

\* peek_front taking the exclusive borrow
peek_front_excl(hd, tl, h) ==
    IF hd = None THEN Outcome(hd, tl, h, None, FALSE)
    ELSE IF ~BorrowMutOk(h, hd) THEN Outcome(hd, tl, h, None, TRUE)
    ELSE Outcome(hd, tl, [h EXCEPT ![hd].borrow = -1], h[hd].elem, FALSE)

\* self.head.as_ref().map(|node| Ref::map(RefCell::borrow(node), |node| &node.elem))
peek_front(hd, tl, h) ==
    IF hd = None THEN Outcome(hd, tl, h, None, FALSE)
    ELSE IF ~BorrowOk(h, hd) THEN Outcome(hd, tl, h, None, TRUE)
    ELSE Outcome(hd, tl, [h EXCEPT ![hd].borrow = @ + 1], h[hd].elem, FALSE)

\* peek_back reading through self.head
peek_back_head(hd, tl, h) ==
    IF hd = None THEN Outcome(hd, tl, h, None, FALSE)
    ELSE IF ~BorrowOk(h, tl) THEN Outcome(hd, tl, h, None, TRUE)
    ELSE Outcome(hd, tl, [h EXCEPT ![tl].borrow = @ + 1], h[hd].elem, FALSE)

peek_back(hd, tl, h) ==
    IF tl = None THEN Outcome(hd, tl, h, None, FALSE)
    ELSE IF ~BorrowOk(h, tl) THEN Outcome(hd, tl, h, None, TRUE)
    ELSE Outcome(hd, tl, [h EXCEPT ![tl].borrow = @ + 1], h[tl].elem, FALSE)

\* peek_back_mut unwrapping the tail
peek_back_mut_unwrap(hd, tl, h) ==
    IF tl = None THEN Outcome(hd, tl, h, None, TRUE)
    ELSE IF ~BorrowMutOk(h, tl) THEN Outcome(hd, tl, h, None, TRUE)
    ELSE Outcome(hd, tl, [h EXCEPT ![tl].borrow = -1], h[tl].elem, FALSE)

\* self.tail.as_ref().map(|node| RefMut::map(node.borrow_mut(), |node| &mut node.elem))
peek_back_mut(hd, tl, h) ==
    IF tl = None THEN Outcome(hd, tl, h, None, FALSE)
    ELSE IF ~BorrowMutOk(h, tl) THEN Outcome(hd, tl, h, None, TRUE)
    ELSE Outcome(hd, tl, [h EXCEPT ![tl].borrow = -1], h[tl].elem, FALSE)

peek_front_mut(hd, tl, h) ==
    IF hd = None THEN Outcome(hd, tl, h, None, FALSE)
    ELSE IF ~BorrowMutOk(h, hd) THEN Outcome(hd, tl, h, None, TRUE)
    ELSE Outcome(hd, tl, [h EXCEPT ![hd].borrow = -1], h[hd].elem, FALSE)

\* ---- the caller ----

\* the walk along next from node n, at most k steps
RECURSIVE Walk(_, _, _)
Walk(h, n, k) ==
    IF n = None \/ k = 0 THEN << >> ELSE <<n>> \o Walk(h, h[n].next, k - 1)

\* the walk along prev from node n, at most k steps
RECURSIVE WalkBack(_, _, _)
WalkBack(h, n, k) ==
    IF n = None \/ k = 0 THEN << >> ELSE <<n>> \o WalkBack(h, h[n].prev, k - 1)

Elems(h, path) == [i \in 1..Len(path) |-> h[path[i]].elem]

\* the front-to-back elements of the deque
Contents == Elems(nodes, Walk(nodes, head, MaxLen + 1))

NoLiveView == heldMut = None /\ \A n \in NodeIds : held[n] = 0

\* a method taking &mut self (or self) needs every view to be dead
CanCallMut == ~panicked /\ NoLiveView

\* a method taking &self needs the RefMut view to be dead
CanCallShared == ~panicked /\ heldMut = None

RECURSIVE Sum(_, _)
Sum(f, S) == IF S = {} THEN 0 ELSE LET x == CHOOSE y \in S : TRUE IN f[x] + Sum(f, S \ {x})

\* views whose borrow has not been returned
ViewCount ==
    Sum(held, NodeIds) + Sum(leakedRef, NodeIds) + Sum(leakedMut, NodeIds)
        + (IF heldMut = None THEN 0 ELSE 1)

CanCall == limit = 0 \/ Len(hist) < limit

CanPush == CanCall /\ Len(Contents) < MaxLen /\ FreeIds(nodes) # {}

Event(name, arg, o) == [op |-> name, arg |-> arg, ret |-> o.ret, panic |-> o.panic]

Log(ev) == hist' = (IF limit = 0 THEN hist ELSE Append(hist, ev)) /\ last' = ev

\* the state after a call with outcome o
Apply(o) ==
    /\ head' = o.head
    /\ tail' = o.tail
    /\ nodes' = o.nodes
    /\ panicked' = o.panic
    \* a forgotten view of a node that is freed is gone with the node
    /\ leakedRef' = [n \in NodeIds |-> IF o.nodes[n].strong = 0 THEN 0 ELSE leakedRef[n]]
    /\ leakedMut' = [n \in NodeIds |-> IF o.nodes[n].strong = 0 THEN 0 ELSE leakedMut[n]]

\* List::new of ok_unsafe_singly_linked_queue
QueueNew ==
    /\ qhead = None
    /\ qtail = None
    /\ qnodes = [n \in BoxIds |-> Box0]
    /\ qub = FALSE

\* List::new of ok_single_linked_list
StackNew == shead = None /\ snodes = [n \in BoxIds |-> Box0]

\* List::new of bad_single_linked_list
BadNew == bhead = None /\ bnodes = [n \in BoxIds |-> Box0]

\* List::new of persistent_linked_list, held in the first variable
PersistNew ==
    /\ plists = [l \in ListIds |-> IF l = 1 THEN [live |-> TRUE, head |-> None] ELSE NoList]
    /\ pnodes = [n \in PNodeIds |-> PFree]

\* List::new of bad_safe_deque
New(lim) ==
    /\ head = None
    /\ tail = None
    /\ nodes = [n \in NodeIds |-> FreeSlot]
    /\ held = [n \in NodeIds |-> 0]
    /\ heldMut = None
    /\ heldFrom = "none"
    /\ leakedRef = [n \in NodeIds |-> 0]
    /\ leakedMut = [n \in NodeIds |-> 0]
    /\ mode = "list"
    /\ iterSrc = << >>
    /\ panicked = FALSE
    /\ limit = lim
    /\ hist = << >>
    /\ last = [op |-> "new", arg |-> None, ret |-> None, panic |-> FALSE]
    /\ released = << >>

\* the lists of the other types, newly made
OthersNew == QueueNew /\ StackNew /\ BadNew /\ PersistNew

Init == New(0) /\ OthersNew /\ run = "deque"

PushFront(e) ==
    /\ CanCallMut /\ mode = "list" /\ CanPush
    /\ LET o == push_front(head, tail, nodes, e) IN
         Apply(o) /\ Log(Event("push_front", e, o))
    /\ UNCHANGED <<otherLists, released, held, heldMut, heldFrom, mode, iterSrc, limit>>

PushBack(e) ==
    /\ CanCallMut /\ mode = "list" /\ CanPush
    /\ LET o == push_back(head, tail, nodes, e) IN
         Apply(o) /\ Log(Event("push_back", e, o))
    /\ UNCHANGED <<otherLists, released, held, heldMut, heldFrom, mode, iterSrc, limit>>

PopFront ==
    /\ CanCallMut /\ mode = "list" /\ CanCall
    /\ LET o == pop_front(head, tail, nodes) IN
         Apply(o) /\ Log(Event("pop_front", None, o))
    /\ UNCHANGED <<otherLists, released, held, heldMut, heldFrom, mode, iterSrc, limit>>

PopBack ==
    /\ CanCallMut /\ mode = "list" /\ CanCall
    /\ LET o == pop_back(head, tail, nodes) IN
         Apply(o) /\ Log(Event("pop_back", None, o))
    /\ UNCHANGED <<otherLists, released, held, heldMut, heldFrom, mode, iterSrc, limit>>

\* a peek that returns Some hands a view to the caller
PeekFront ==
    /\ CanCallShared /\ mode = "list" /\ CanCall /\ ViewCount < MaxViews
    /\ LET o == peek_front(head, tail, nodes) IN
         /\ Apply(o) /\ Log(Event("peek_front", None, o))
         /\ held' = IF o.ret # None THEN [held EXCEPT ![head] = @ + 1] ELSE held
    /\ UNCHANGED <<otherLists, released, heldMut, heldFrom, mode, iterSrc, limit>>

PeekBack ==
    /\ CanCallShared /\ mode = "list" /\ CanCall /\ ViewCount < MaxViews
    /\ LET o == peek_back(head, tail, nodes) IN
         /\ Apply(o) /\ Log(Event("peek_back", None, o))
         /\ held' = IF o.ret # None THEN [held EXCEPT ![tail] = @ + 1] ELSE held
    /\ UNCHANGED <<otherLists, released, heldMut, heldFrom, mode, iterSrc, limit>>

\* peek_front_mut going through self.tail
PeekFrontMut_tail ==
    /\ CanCallMut /\ mode = "list" /\ CanCall /\ ViewCount < MaxViews
    /\ LET o == peek_back_mut(head, tail, nodes) IN
         /\ Apply(o) /\ Log(Event("peek_front_mut", None, o))
         /\ IF o.ret # None
            THEN heldMut' = tail /\ heldFrom' = "peek_front_mut"
            ELSE UNCHANGED <<heldMut, heldFrom>>
    /\ UNCHANGED <<otherLists, released, held, mode, iterSrc, limit>>

PeekFrontMut ==
    /\ CanCallMut /\ mode = "list" /\ CanCall /\ ViewCount < MaxViews
    /\ LET o == peek_front_mut(head, tail, nodes) IN
         /\ Apply(o) /\ Log(Event("peek_front_mut", None, o))
         /\ IF o.ret # None
            THEN heldMut' = head /\ heldFrom' = "peek_front_mut"
            ELSE UNCHANGED <<heldMut, heldFrom>>
    /\ UNCHANGED <<otherLists, released, held, mode, iterSrc, limit>>

PeekBackMut ==
    /\ CanCallMut /\ mode = "list" /\ CanCall /\ ViewCount < MaxViews
    /\ LET o == peek_back_mut(head, tail, nodes) IN
         /\ Apply(o) /\ Log(Event("peek_back_mut", None, o))
         /\ IF o.ret # None
            THEN heldMut' = tail /\ heldFrom' = "peek_back_mut"
            ELSE UNCHANGED <<heldMut, heldFrom>>
    /\ UNCHANGED <<otherLists, released, held, mode, iterSrc, limit>>

\* *view = w through the RefMut<T> returned by peek_front_mut / peek_back_mut
WriteView(w) ==
    /\ ~panicked /\ heldMut # None /\ CanCall
    /\ nodes' = [nodes EXCEPT ![heldMut].elem = w]
    /\ Log([op |-> "write", arg |-> w, ret |-> None, panic |-> FALSE])
    /\ UNCHANGED <<otherLists, released, head, tail, held, heldMut, heldFrom, leakedRef, leakedMut, mode, iterSrc,
                   panicked, limit>>

\* the Ref<T> goes out of scope: the shared borrow is returned
DropRef(n) ==
    /\ ~panicked /\ held[n] > 0
    /\ held' = [held EXCEPT ![n] = @ - 1]
    /\ nodes' = ReleaseShared(nodes, n)
    /\ UNCHANGED <<otherLists, released, head, tail, heldMut, heldFrom, leakedRef, leakedMut, mode, iterSrc,
                   panicked, limit, hist, last>>

\* the RefMut<T> goes out of scope: the exclusive borrow is returned
DropRefMut ==
    /\ ~panicked /\ heldMut # None
    /\ heldMut' = None
    /\ heldFrom' = "none"
    /\ nodes' = ReleaseExclusive(nodes, heldMut)
    /\ UNCHANGED <<otherLists, released, head, tail, held, leakedRef, leakedMut, mode, iterSrc,
                   panicked, limit, hist, last>>

\* mem::forget(view): the view dies without returning its borrow
ForgetRef(n) ==
    /\ ~panicked /\ held[n] > 0
    /\ held' = [held EXCEPT ![n] = @ - 1]
    /\ leakedRef' = [leakedRef EXCEPT ![n] = @ + 1]
    /\ UNCHANGED <<otherLists, released, head, tail, nodes, heldMut, heldFrom, leakedMut, mode, iterSrc,
                   panicked, limit, hist, last>>

ForgetRefMut ==
    /\ ~panicked /\ heldMut # None
    /\ heldMut' = None
    /\ heldFrom' = "none"
    /\ leakedMut' = [leakedMut EXCEPT ![heldMut] = @ + 1]
    /\ UNCHANGED <<otherLists, released, head, tail, nodes, held, leakedRef, mode, iterSrc,
                   panicked, limit, hist, last>>

\* ---- the consuming iterator ----

\* List::into_iter : IntoIter(self)
IntoIter ==
    /\ CanCallMut /\ mode = "list"
    /\ mode' = "iter"
    /\ iterSrc' = Contents
    /\ UNCHANGED <<otherLists, released, head, tail, nodes, held, heldMut, heldFrom, leakedRef, leakedMut,
                   panicked, limit, hist, last>>

\* Iterator::next : self.0.pop_front()
Next_ ==
    /\ ~panicked /\ mode = "iter" /\ CanCall
    /\ LET o == pop_front(head, tail, nodes) IN
         Apply(o) /\ Log(Event("next", None, o))
    /\ UNCHANGED <<otherLists, released, held, heldMut, heldFrom, mode, iterSrc, limit>>

\* next_back calling pop_front
NextBack_front ==
    /\ ~panicked /\ mode = "iter" /\ CanCall
    /\ LET o == pop_front(head, tail, nodes) IN
         Apply(o) /\ Log(Event("next_back", None, o))
    /\ UNCHANGED <<otherLists, released, held, heldMut, heldFrom, mode, iterSrc, limit>>

\* DoubleEndedIterator::next_back : self.0.pop_back()
NextBack ==
    /\ ~panicked /\ mode = "iter" /\ CanCall
    /\ LET o == pop_back(head, tail, nodes) IN
         Apply(o) /\ Log(Event("next_back", None, o))
    /\ UNCHANGED <<otherLists, released, held, heldMut, heldFrom, mode, iterSrc, limit>>

\* ---- drop ----

\* drop without the loop: only the fields head and tail are dropped
drop_default(hd, tl, h) ==
    [head |-> hd, tail |-> tl, nodes |-> RcDrop(RcDrop(h, hd), tl),
     released |-> << >>, panic |-> FALSE, done |-> TRUE]

\* the nodes that are allocated in heap h and free in heap h2
Freed(h, h2) == {n \in NodeIds : h[n].strong > 0 /\ h2[n].strong = 0}

\* while self.pop_front().is_some() {} : at most k iterations are followed
RECURSIVE drop_loop(_, _, _, _, _)
drop_loop(hd, tl, h, rel, k) ==
    IF k = 0
    THEN [head |-> hd, tail |-> tl, nodes |-> h, released |-> rel, panic |-> FALSE, done |-> FALSE]
    ELSE LET o == pop_front(hd, tl, h) IN
         IF o.panic
         THEN [head |-> o.head, tail |-> o.tail, nodes |-> o.nodes, released |-> rel,
               panic |-> TRUE, done |-> TRUE]
         ELSE IF o.ret # None
         THEN drop_loop(o.head, o.tail, o.nodes, Append(rel, Freed(h, o.nodes)), k - 1)
         ELSE [head |-> o.head, tail |-> o.tail, nodes |-> o.nodes, released |-> rel,
               panic |-> FALSE, done |-> TRUE]

\* Drop::drop for List, then the drop of the fields head and tail, which
\* also happens when drop unwinds
drop(hd, tl, h) ==
    LET o == drop_loop(hd, tl, h, << >>, MaxLen + 2) IN
    IF o.done THEN [o EXCEPT !.nodes = RcDrop(RcDrop(o.nodes, o.head), o.tail)] ELSE o

\* the List goes out of scope; head and tail are shown as drop left them
Drop_ ==
    /\ CanCallMut /\ mode = "list" /\ CanCall
    /\ LET o == drop(head, tail, nodes) IN
         /\ Apply(o)
         /\ Log([op |-> "drop", arg |-> None, ret |-> None, panic |-> o.panic])
         /\ released' = o.released
         /\ mode' = IF o.done THEN "dropped" ELSE "dropping"
    /\ UNCHANGED <<otherLists, held, heldMut, heldFrom, iterSrc, limit>>


Next ==
    \/ \E e \in Values : PushFront(e)
    \/ \E e \in Values : PushBack(e)
    \/ PopFront
    \/ PopBack
    \/ PeekFront
    \/ PeekBack
    \/ PeekFrontMut
    \/ PeekBackMut
    \/ \E w \in Values : WriteView(w)
    \/ \E n \in NodeIds : DropRef(n)
    \/ DropRefMut
    \/ \E n \in NodeIds : ForgetRef(n)
    \/ ForgetRefMut
    \/ Drop_

\* unbounded runs of the List calls, with views
Spec == Init /\ [][Next]_vars

\* logged runs of at most MaxCalls calls of the List and its IntoIter that
\* never peek
InitCalls == New(MaxCalls) /\ OthersNew /\ run = "deque"

NextCalls ==
    \/ \E e \in Values : PushFront(e)
    \/ \E e \in Values : PushBack(e)
    \/ PopFront
    \/ PopBack
    \/ IntoIter
    \/ Next_
    \/ NextBack

SpecCalls == InitCalls /\ [][NextCalls]_vars

\* ---- ok_unsafe_singly_linked_queue: a queue on raw pointers ----

\* the allocation Box::new returns: one never made before
FreshBox(h) == CHOOSE n \in BoxIds : h[n].state = "unused" /\ \A m \in BoxIds : h[m].state = "unused" => n <= m

HasFreshBox(h) == \E n \in BoxIds : h[n].state = "unused"

\* Box::new(Node {elem, next})
BoxNew(h, n, e, nx) == [h EXCEPT ![n] = [elem |-> e, next |-> nx, state |-> "live"]]

\* the Box goes out of scope
BoxFree(h, n) == [h EXCEPT ![n] = [elem |-> None, next |-> None, state |-> "freed"]]

\* the result of one method of the queue: the List fields, the allocations,
\* the returned value, the node a returned reference points into, and whether
\* a pointer to no live allocation was used
QOutcome(hd, tl, h, r, at, ub) ==
    [head |-> hd, tail |-> tl, nodes |-> h, ret |-> r, at |-> at, ub |-> ub]

\* push that links the new node in front of the head
q_push_front(hd, tl, h, e) ==
    LET new_tail == FreshBox(h)
        h0 == BoxNew(h, new_tail, e, hd)
    IN IF tl # None
       THEN QOutcome(new_tail, tl, h0, None, None, FALSE)
       ELSE QOutcome(new_tail, new_tail, h0, None, None, FALSE)

q_push(hd, tl, h, e) ==
    LET new_tail == FreshBox(h)
        h0 == BoxNew(h, new_tail, e, None)                \* Box::into_raw(Box::new(..))
    IN IF tl # None
       THEN IF h0[tl].state # "live"
            THEN QOutcome(hd, tl, h0, None, None, TRUE)
            ELSE \* (*self.tail).next = new_tail; self.tail = new_tail
                 QOutcome(hd, new_tail, [h0 EXCEPT ![tl].next = new_tail], None, None, FALSE)
       ELSE \* self.head = new_tail; self.tail = new_tail
            QOutcome(new_tail, new_tail, h0, None, None, FALSE)

\* pop that leaves the tail field as it is when the last node goes
q_pop_keep_tail(hd, tl, h) ==
    IF hd = None THEN QOutcome(hd, tl, h, None, None, FALSE)
    ELSE IF h[hd].state # "live" THEN QOutcome(hd, tl, h, None, None, TRUE)
    ELSE QOutcome(h[hd].next, tl, BoxFree(h, hd), h[hd].elem, None, FALSE)

q_pop(hd, tl, h) ==
    IF hd = None THEN QOutcome(hd, tl, h, None, None, FALSE)
    ELSE IF h[hd].state # "live" THEN QOutcome(hd, tl, h, None, None, TRUE)
    ELSE LET node == hd                                   \* Box::from_raw(self.head)
             new_head == h[node].next                     \* self.head = (*node).next
             new_tail == IF new_head = None THEN None ELSE tl
         IN \* Some(node.elem); the Box is freed at the end of the block
            QOutcome(new_head, new_tail, BoxFree(h, node), h[node].elem, None, FALSE)

\* self.head.as_ref().map(|node| &node.elem)
q_peek(hd, tl, h) ==
    IF hd = None THEN QOutcome(hd, tl, h, None, None, FALSE)
    ELSE IF h[hd].state # "live" THEN QOutcome(hd, tl, h, None, None, TRUE)
    ELSE QOutcome(hd, tl, h, h[hd].elem, hd, FALSE)

\* peek_mut that hands out the element of the tail
q_peek_mut_tail(hd, tl, h) ==
    IF tl = None THEN QOutcome(hd, tl, h, None, None, FALSE)
    ELSE IF h[tl].state # "live" THEN QOutcome(hd, tl, h, None, None, TRUE)
    ELSE QOutcome(hd, tl, h, h[tl].elem, tl, FALSE)

\* self.head.as_mut().map(|node| &mut node.elem)
q_peek_mut(hd, tl, h) ==
    IF hd = None THEN QOutcome(hd, tl, h, None, None, FALSE)
    ELSE IF h[hd].state # "live" THEN QOutcome(hd, tl, h, None, None, TRUE)
    ELSE QOutcome(hd, tl, h, h[hd].elem, hd, FALSE)

\* the state of the queue after a call with outcome o
QApply(o) ==
    /\ qhead' = o.head
    /\ qtail' = o.tail
    /\ qnodes' = o.nodes
    /\ qub' = o.ub

\* what a queue action leaves alone
QFrame == UNCHANGED <<dequeVars, limit, run, shead, snodes, bhead, bnodes, plists, pnodes>>

\* the queue is called while it exists (mode becomes "dropped" when it goes)
CanCallQueue == run = "queue" /\ mode = "list" /\ ~qub /\ CanCall

QPush(e) ==
    /\ CanCallQueue /\ HasFreshBox(qnodes)
    /\ LET o == q_push(qhead, qtail, qnodes, e) IN
         QApply(o) /\ Log([op |-> "push", arg |-> e, ret |-> o.ret, panic |-> FALSE])
    /\ QFrame

QPop ==
    /\ CanCallQueue
    /\ LET o == q_pop(qhead, qtail, qnodes) IN
         QApply(o) /\ Log([op |-> "pop", arg |-> None, ret |-> o.ret, panic |-> FALSE])
    /\ QFrame

QPeek ==
    /\ CanCallQueue
    /\ LET o == q_peek(qhead, qtail, qnodes) IN
         QApply(o) /\ Log([op |-> "peek", arg |-> None, ret |-> o.ret, panic |-> FALSE])
    /\ QFrame

\* list.peek_mut().map(|x| *x = w) : the returned &mut T is written once
\* and dies; ret is the value it pointed to before the write
QPeekMut(w) ==
    /\ CanCallQueue
    /\ LET o == q_peek_mut(qhead, qtail, qnodes) IN
         /\ qhead' = o.head
         /\ qtail' = o.tail
         /\ qub' = o.ub
         /\ qnodes' = IF o.at # None THEN [o.nodes EXCEPT ![o.at].elem = w] ELSE o.nodes
         /\ Log([op |-> "peek_mut", arg |-> w, ret |-> o.ret, panic |-> FALSE])
    /\ QFrame

\* drop that frees the node at head and leaves the rest of the chain
q_drop_head_only(hd, tl, h) ==
    IF hd = None THEN QOutcome(hd, tl, h, None, None, FALSE)
    ELSE IF h[hd].state # "live" THEN QOutcome(hd, tl, h, None, None, TRUE)
    ELSE QOutcome(None, tl, BoxFree(h, hd), None, None, FALSE)

\* Drop::drop : while !self.head.is_null() { let next = (*self.head).next;
\* drop(Box::from_raw(mem::replace(&mut self.head, next))) }.  The tail field
\* is not written.  Every turn frees a live node or stops on a pointer to
\* none, so the loop ends.
RECURSIVE q_drop(_, _, _)
q_drop(hd, tl, h) ==
    IF hd = None THEN QOutcome(hd, tl, h, None, None, FALSE)
    ELSE IF h[hd].state # "live" THEN QOutcome(hd, tl, h, None, None, TRUE)
    ELSE LET next == h[hd].next
         IN q_drop(next, tl, BoxFree(h, hd))

\* the queue goes out of scope
QDrop ==
    /\ CanCallQueue
    /\ LET o == q_drop(qhead, qtail, qnodes) IN
         QApply(o) /\ Log([op |-> "drop", arg |-> None, ret |-> o.ret, panic |-> FALSE])
    /\ mode' = "dropped"
    /\ UNCHANGED <<head, tail, nodes, held, heldMut, heldFrom, leakedRef, leakedMut,
                   iterSrc, panicked, released>>
    /\ UNCHANGED <<limit, run, shead, snodes, bhead, bnodes, plists, pnodes>>

\* ---- ok_single_linked_list: a stack of Option<Box<Node<T>>> ----

\* the result of one method of a stack: the head field, the boxes, the
\* returned value and the node a returned reference points into
SOutcome(hd, h, r, at) == [head |-> hd, nodes |-> h, ret |-> r, at |-> at]

s_push(hd, h, e) ==
    LET new_node == FreshBox(h)                           \* next: self.head.take()
    IN SOutcome(new_node, BoxNew(h, new_node, e, hd), None, None)

s_pop(hd, h) ==
    IF hd = None THEN SOutcome(None, h, None, None)       \* self.head.take() of None
    ELSE LET node == hd
         IN \* self.head = node.next; node.elem; the Box is freed
            SOutcome(h[node].next, BoxFree(h, node), h[node].elem, None)

\* self.head.as_ref().map(|node| &node.elem)
s_peek(hd, h) ==
    IF hd = None THEN SOutcome(hd, h, None, None) ELSE SOutcome(hd, h, h[hd].elem, hd)

\* self.head.as_mut().map(|node| &mut node.elem)
s_peek_mut(hd, h) ==
    IF hd = None THEN SOutcome(hd, h, None, None) ELSE SOutcome(hd, h, h[hd].elem, hd)

SFrame == UNCHANGED <<dequeVars, limit, run, qhead, qtail, qnodes, qub, bhead, bnodes, plists, pnodes>>

CanCallStack == run = "stack" /\ CanCall

SPush(e) ==
    /\ CanCallStack /\ HasFreshBox(snodes)
    /\ LET o == s_push(shead, snodes, e) IN
         /\ shead' = o.head /\ snodes' = o.nodes
         /\ Log([op |-> "push", arg |-> e, ret |-> o.ret, panic |-> FALSE])
    /\ SFrame

SPop ==
    /\ CanCallStack
    /\ LET o == s_pop(shead, snodes) IN
         /\ shead' = o.head /\ snodes' = o.nodes
         /\ Log([op |-> "pop", arg |-> None, ret |-> o.ret, panic |-> FALSE])
    /\ SFrame

SPeek ==
    /\ CanCallStack
    /\ LET o == s_peek(shead, snodes) IN
         /\ shead' = o.head /\ snodes' = o.nodes
         /\ Log([op |-> "peek", arg |-> None, ret |-> o.ret, panic |-> FALSE])
    /\ SFrame

\* list.peek_mut().map(|x| *x = w)
SPeekMut(w) ==
    /\ CanCallStack
    /\ LET o == s_peek_mut(shead, snodes) IN
         /\ shead' = o.head
         /\ snodes' = IF o.at # None THEN [o.nodes EXCEPT ![o.at].elem = w] ELSE o.nodes
         /\ Log([op |-> "peek_mut", arg |-> w, ret |-> o.ret, panic |-> FALSE])
    /\ SFrame

\* ---- bad_single_linked_list: a stack of enum Link {Empty, More(Box<Node>)} ----

\* push that drops the old list instead of linking it
b_push_drop(hd, h, e) ==
    LET new_node == FreshBox(h)
    IN SOutcome(new_node, BoxNew(h, new_node, e, None), None, None)

b_push(hd, h, e) ==
    LET new_node == FreshBox(h)                           \* next: mem::replace(&mut self.head, Empty)
    IN SOutcome(new_node, BoxNew(h, new_node, e, hd), None, None)

b_pop(hd, h) ==
    IF hd = None THEN SOutcome(None, h, None, None)       \* Link::Empty => None
    ELSE LET node == hd                                   \* Link::More(node)
         IN SOutcome(h[node].next, BoxFree(h, node), h[node].elem, None)

BFrame == UNCHANGED <<dequeVars, limit, run, qhead, qtail, qnodes, qub, shead, snodes, plists, pnodes>>

CanCallBad == run = "bad_stack" /\ CanCall

BPush(e) ==
    /\ CanCallBad /\ HasFreshBox(bnodes)
    /\ LET o == b_push(bhead, bnodes, e) IN
         /\ bhead' = o.head /\ bnodes' = o.nodes
         /\ Log([op |-> "push", arg |-> e, ret |-> o.ret, panic |-> FALSE])
    /\ BFrame

BPop ==
    /\ CanCallBad
    /\ LET o == b_pop(bhead, bnodes) IN
         /\ bhead' = o.head /\ bnodes' = o.nodes
         /\ Log([op |-> "pop", arg |-> None, ret |-> o.ret, panic |-> FALSE])
    /\ BFrame

\* ---- runs of a queue or a stack ----

\* logged runs of at most MaxCalls push and pop calls on a new list
InitLinked == New(MaxCalls) /\ OthersNew /\ run \in {"queue", "stack", "bad_stack"}

NextLinked ==
    \/ \E e \in Values : QPush(e)
    \/ QPop
    \/ \E e \in Values : SPush(e)
    \/ SPop
    \/ \E e \in Values : BPush(e)
    \/ BPop

SpecLinked == InitLinked /\ [][NextLinked]_vars

\* runs with peeks, not logged, that make at most MaxCalls pushes, on the
\* two lists that have peek and peek_mut
InitPeek == New(0) /\ OthersNew /\ run \in {"queue", "stack"}

NextPeek ==
    \/ \E e \in Values : QPush(e)
    \/ QPop
    \/ QPeek
    \/ \E w \in Values : QPeekMut(w)
    \/ \E e \in Values : SPush(e)
    \/ SPop
    \/ SPeek
    \/ \E w \in Values : SPeekMut(w)

SpecPeek == InitPeek /\ [][NextPeek]_vars

\* logged runs of at most MaxCalls calls on a new queue: pushes and pops,
\* and the drop that ends the queue's life
InitQueue == New(MaxCalls) /\ OthersNew /\ run = "queue"

NextQueue ==
    \/ \E e \in Values : QPush(e)
    \/ QPop
    \/ QDrop

SpecQueue == InitQueue /\ [][NextQueue]_vars

\* ---- persistent_linked_list: immutable lists that share their nodes ----

\* the slot Rc::new returns: the lowest free one
PNew(h) == CHOOSE n \in PNodeIds : h[n].strong = 0 /\ \A m \in PNodeIds : h[m].strong = 0 => n <= m

\* Option<Rc<Node>>::clone
PClone(h, n) == IF n = None THEN h ELSE [h EXCEPT ![n].strong = @ + 1]

\* the result of one method: the head of the list it was called on, the
\* head of the list it returns, the nodes, and the value it returns
POutcome(self, new, h, r) == [self |-> self, new |-> new, nodes |-> h, ret |-> r]

\* prepend that takes the head out of the list it is called on
p_prepend_take(hd, h, x) ==
    LET n == PNew(h)
    IN POutcome(None, n, [h EXCEPT ![n] = [elem |-> x, next |-> hd, strong |-> 1]], None)

\* List {head: Some(Rc::new(Node {elem, next: self.head.clone()}))}
p_prepend(hd, h, x) ==
    LET n == PNew(h)
        h0 == PClone(h, hd)
    IN POutcome(hd, n, [h0 EXCEPT ![n] = [elem |-> x, next |-> hd, strong |-> 1]], None)

\* List {head: self.head.as_ref().and_then(|node| node.next.clone())}
p_tail(hd, h) ==
    IF hd = None THEN POutcome(hd, None, h, None)
    ELSE POutcome(hd, h[hd].next, PClone(h, h[hd].next), None)

\* self.head.as_ref().map(|node| &node.elem)
p_head(hd, h) ==
    IF hd = None THEN POutcome(hd, None, h, None) ELSE POutcome(hd, None, h, h[hd].elem)

\* while let Some(node) = head { if let Ok(mut node) = Rc::try_unwrap(node)
\* { head = node.next.take() } else { break } }
RECURSIVE p_drop_loop(_, _)
p_drop_loop(hd, h) ==
    IF hd = None THEN h
    ELSE IF h[hd].strong = 1
    THEN p_drop_loop(h[hd].next, [h EXCEPT ![hd] = PFree])
    ELSE [h EXCEPT ![hd].strong = @ - 1]                  \* the Err(rc) is dropped

\* drop that lets go of the head node only and does not walk on
p_drop_head(hd, h) ==
    IF hd = None THEN POutcome(None, None, h, None)
    ELSE IF h[hd].strong = 1 THEN POutcome(None, None, [h EXCEPT ![hd] = PFree], None)
    ELSE POutcome(None, None, [h EXCEPT ![hd].strong = @ - 1], None)

\* Drop::drop : let mut head = self.head.take(); the loop
p_drop(hd, h) == POutcome(None, None, p_drop_loop(hd, h), None)

\* the variable that receives a returned list: the lowest one holding none
NewList == CHOOSE t \in ListIds : ~plists[t].live /\ \A u \in ListIds : ~plists[u].live => t <= u

HasNewList == \E t \in ListIds : ~plists[t].live

HasPNew == \E n \in PNodeIds : pnodes[n].strong = 0

\* sequence sq without the later occurrences of its elements
RECURSIVE Dedup(_)
Dedup(sq) ==
    IF sq = << >> THEN << >>
    ELSE LET pre == Dedup(SubSeq(sq, 1, Len(sq) - 1))
             x == sq[Len(sq)]
         IN IF \E i \in 1..Len(pre) : pre[i] = x THEN pre ELSE Append(pre, x)

RECURSIVE PWalks(_, _, _)
PWalks(pl, h, l) ==
    IF l > MaxLists THEN << >> ELSE Walk(h, pl[l].head, MaxNodes) \o PWalks(pl, h, l + 1)

\* the allocated nodes of h in the order of their addresses
RECURSIVE PAllocated(_, _)
PAllocated(h, n) ==
    IF n > MaxNodes THEN << >>
    ELSE (IF h[n].strong > 0 THEN <<n>> ELSE << >>) \o PAllocated(h, n + 1)

\* the allocated nodes in the order in which the lists reach them, and
\* after them the ones no list reaches
POrder(pl, h) ==
    LET reached == Dedup(PWalks(pl, h, 1))
    IN IF \A n \in PNodeIds : h[n].strong > 0 => \E i \in 1..Len(reached) : reached[i] = n
       THEN reached
       ELSE Dedup(reached \o PAllocated(h, 1))

PPos(order, n) == IF n = None THEN None ELSE CHOOSE i \in 1..Len(order) : order[i] = n

\* Rc::new may return any free address and no method looks at one: the
\* nodes are kept numbered in the order in which the lists reach them
PNodesCanon(order, h) ==
    [i \in PNodeIds |->
        IF i <= Len(order) THEN [h[order[i]] EXCEPT !.next = PPos(order, @)] ELSE PFree]

PListsCanon(order, pl) == [l \in ListIds |-> [pl[l] EXCEPT !.head = PPos(order, @)]]

\* the lists and nodes after a call that left them as pl and h
PApply(pl, h) ==
    LET order == POrder(pl, h)
    IN plists' = PListsCanon(order, pl) /\ pnodes' = PNodesCanon(order, h)

PFrame ==
    UNCHANGED <<dequeVars, limit, run, qhead, qtail, qnodes, qub, shead, snodes, bhead, bnodes>>

CanCallPersist(l) == run = "persistent" /\ plists[l].live /\ CanCall

\* a call on persistent list l
PEvent(name, l, arg, r) == [op |-> name, on |-> l, arg |-> arg, ret |-> r, panic |-> FALSE]

\* let t = l.prepend(x)
PPrepend(l, x) ==
    /\ CanCallPersist(l) /\ HasNewList /\ HasPNew
    /\ LET o == p_prepend(plists[l].head, pnodes, x) IN
         /\ PApply([plists EXCEPT ![l].head = o.self, ![NewList] = [live |-> TRUE, head |-> o.new]],
                   o.nodes)
         /\ Log(PEvent("prepend", l, x, o.ret))
    /\ PFrame

\* let t = l.tail()
PTail(l) ==
    /\ CanCallPersist(l) /\ HasNewList
    /\ LET o == p_tail(plists[l].head, pnodes) IN
         /\ PApply([plists EXCEPT ![l].head = o.self, ![NewList] = [live |-> TRUE, head |-> o.new]],
                   o.nodes)
         /\ Log(PEvent("tail", l, None, o.ret))
    /\ PFrame

\* l.head()
PHead(l) ==
    /\ CanCallPersist(l)
    /\ LET o == p_head(plists[l].head, pnodes) IN
         /\ PApply([plists EXCEPT ![l].head = o.self], o.nodes)
         /\ Log(PEvent("head", l, None, o.ret))
    /\ PFrame

\* l goes out of scope
PDrop(l) ==
    /\ CanCallPersist(l)
    /\ LET o == p_drop(plists[l].head, pnodes) IN
         /\ PApply([plists EXCEPT ![l] = NoList], o.nodes)
         /\ Log(PEvent("drop", l, None, o.ret))
    /\ PFrame

InitPersist == New(0) /\ OthersNew /\ run = "persistent"

NextPersist ==
    \/ \E l \in ListIds, x \in Values : PPrepend(l, x)
    \/ \E l \in ListIds : PTail(l)
    \/ \E l \in ListIds : PHead(l)
    \/ \E l \in ListIds : PDrop(l)

\* runs of prepend, tail, head and drop on at most MaxLists lists
SpecPersist == InitPersist /\ [][NextPersist]_vars

\* logged runs of at most MaxCalls calls that make lists and drop them
InitTeardown == New(MaxCalls) /\ OthersNew /\ run = "persistent"

NextTeardown ==
    \/ \E l \in ListIds, x \in Values : PPrepend(l, x)
    \/ \E l \in ListIds : PTail(l)
    \/ \E l \in ListIds : PDrop(l)

SpecTeardown == InitTeardown /\ [][NextTeardown]_vars

\* ---- properties ----

Reverse(sq) == [i \in 1..Len(sq) |-> sq[Len(sq) + 1 - i]]

Range(sq) == {sq[i] : i \in 1..Len(sq)}

Allocated == {n \in NodeIds : nodes[n].strong > 0}

Forward == Walk(nodes, head, MaxLen + 1)

Backward == WalkBack(nodes, tail, MaxLen + 1)

\* a run of n calls `push` from the empty deque followed only by calls `pop`,
\* at most n of them: the j-th pop returns the argument of the j-th last push
PushPopLifo(push, pop) ==
    \A n \in 0..Len(hist) :
        ( /\ \A i \in 1..n : hist[i].op = push
          /\ \A i \in (n + 1)..Len(hist) : hist[i].op = pop
          /\ Len(hist) - n <= n )
        => \A j \in 1..(Len(hist) - n) :
               ~hist[n + j].panic /\ hist[n + j].ret = hist[n + 1 - j].arg

\* C1: n push_front calls on an empty deque followed by pop_front calls
\* return the pushed values in reverse order (vn first, v1 last), and the
\* same holds for push_back followed by pop_back.
C1_PushPopLifo == PushPopLifo("push_front", "pop_front") /\ PushPopLifo("push_back", "pop_back")

\* two push_front calls with v1 # v2, then two pop_front calls
C1_Witness ==
    /\ Len(hist) = 4
    /\ \A i \in 1..2 : hist[i].op = "push_front"
    /\ \A i \in 3..4 : hist[i].op = "pop_front"
    /\ hist[1].arg # hist[2].arg
    /\ hist[3].ret = hist[2].arg
    /\ hist[4].ret = hist[1].arg

\* C2: after completed calls head is None iff tail is None; the walk along
\* next from head ends at tail, the walk along prev from tail ends at head,
\* each visits every allocated node exactly once, the two walks are reverses
\* of each other, and head.prev and tail.next are None.
C2_Structure ==
    ~panicked =>
        /\ (head = None) <=> (tail = None)
        /\ head = None => Allocated = {}
        /\ head # None =>
              /\ Forward[Len(Forward)] = tail
              /\ Backward[Len(Backward)] = head
              /\ Range(Forward) = Allocated
              /\ Len(Forward) = Cardinality(Allocated)
              /\ Len(Backward) = Cardinality(Allocated)
              /\ Backward = Reverse(Forward)
              /\ nodes[head].prev = None
              /\ nodes[tail].next = None

\* a deque of three nodes built from both ends, with a pop that relinked
\* in between
C2_Witness ==
    /\ ~panicked
    /\ Len(Forward) = 3
    /\ \E i \in 1..Len(hist) : hist[i].op = "push_front"
    /\ hist[Len(hist)].op = "push_back"
    /\ hist[3].op = "pop_back" /\ hist[3].ret # None

IsNextSome(ev) == ev.op = "next" /\ ev.ret # None

IsNextBackSome(ev) == ev.op = "next_back" /\ ev.ret # None

Rets(evs) == [i \in 1..Len(evs) |-> evs[i].ret]

\* what the successful next() calls returned, in call order
Yielded == Rets(SelectSeq(hist, IsNextSome))

\* what the successful next_back() calls returned, in call order
YieldedBack == Rets(SelectSeq(hist, IsNextBackSome))

\* C3: on the iterator of a deque with front-to-back content s, the k-th
\* successful next() returns the k-th element of s from the front, the k-th
\* successful next_back() returns the k-th element of s from the back, no
\* element is yielded twice, and what has not been yielded is still in the
\* deque, in order.
C3_IntoIter ==
    mode = "iter" =>
        LET s == iterSrc
            nf == Len(Yielded)
            nb == Len(YieldedBack)
        IN /\ ~panicked
           /\ nf + nb <= Len(s)
           /\ Yielded = SubSeq(s, 1, nf)
           /\ YieldedBack = Reverse(SubSeq(s, Len(s) - nb + 1, Len(s)))
           /\ Contents = SubSeq(s, nf + 1, Len(s) - nb)

\* a deque of three built with push_front and push_back, then next and
\* next_back, the middle element left
C3_Witness ==
    /\ mode = "iter"
    /\ Len(hist) = 5
    /\ \E i \in 1..3 : hist[i].op = "push_front"
    /\ \E i \in 1..3 : hist[i].op = "push_back"
    /\ Len(iterSrc) = 3
    /\ iterSrc[1] # iterSrc[3]
    /\ hist[4].op = "next" /\ hist[4].ret = iterSrc[1]
    /\ hist[5].op = "next_back" /\ hist[5].ret = iterSrc[3]
    /\ Contents = <<iterSrc[2]>>

\* C4: a pop at either end (pop_front, pop_back, next, next_back) of a deque
\* holding n > 0 elements returns an element and leaves n - 1 elements; on
\* an empty deque it returns None and leaves the deque empty.  So with no
\* push in between exactly the first n pops return an element.
C4_Drain ==
    [][ (PopFront \/ PopBack \/ Next_ \/ NextBack) =>
          /\ ~panicked'
          /\ Len(Contents) > 0 => (last'.ret # None /\ Len(Contents') = Len(Contents) - 1)
          /\ Len(Contents) = 0 => (last'.ret = None /\ Len(Contents') = 0 /\ head' = None /\ tail' = None)
      ]_vars

\* two elements, popped at the front and at the back, then None
C4_Witness ==
    /\ Len(hist) = 5
    /\ hist[1].op = "push_back" /\ hist[2].op = "push_front"
    /\ hist[3].op = "pop_front" /\ hist[3].ret # None
    /\ hist[4].op = "pop_back" /\ hist[4].ret # None
    /\ hist[5].op = "pop_front" /\ hist[5].ret = None
    /\ head = None /\ tail = None

\* C5: on an empty deque pop_front, pop_back, peek_front, peek_back,
\* peek_front_mut and peek_back_mut return None without panicking, hand out
\* no view and leave the deque empty and the heap untouched.
C5_EmptyIsNone ==
    [][ ( /\ head = None /\ tail = None
          /\ (PopFront \/ PopBack \/ PeekFront \/ PeekBack \/ PeekFrontMut \/ PeekBackMut) )
        => /\ last'.ret = None /\ ~panicked'
           /\ head' = None /\ tail' = None
           /\ nodes' = nodes /\ held' = held /\ heldMut' = heldMut
      ]_vars

\* peek_back_mut returned None on a deque that pops had emptied
C5_Witness ==
    /\ last.op = "peek_back_mut" /\ last.ret = None /\ ~last.panic
    /\ head = None /\ tail = None /\ ~panicked
    /\ heldMut = None

\* C6: peek_front and peek_back change neither head nor tail; they report
\* None exactly when the deque is empty, and then change nothing; otherwise
\* they add one shared borrow to one node, and returning that borrow gives
\* back the heap as it was before the call: links, elements and counts.
C6_PeekReadOnly ==
    [][ ((PeekFront \/ PeekBack) /\ ~panicked')
        => /\ head' = head /\ tail' = tail
           /\ (last'.ret = None) <=> (Contents = << >>)
           /\ IF last'.ret = None
              THEN nodes' = nodes /\ held' = held
              ELSE \E n \in NodeIds :
                       /\ held' = [held EXCEPT ![n] = @ + 1]
                       /\ ReleaseShared(nodes', n) = nodes
      ]_vars

\* both ends of a deque of two or more peeked, both views alive
C6_Witness ==
    /\ head # None /\ tail # None /\ head # tail
    /\ held[head] = 1 /\ held[tail] = 1
    /\ nodes[head].borrow = 1 /\ nodes[tail].borrow = 1
    /\ nodes[head].elem # nodes[tail].elem
    /\ last.op = "peek_back" /\ last.ret = nodes[tail].elem

NoLeaks == \A n \in NodeIds : leakedRef[n] = 0 /\ leakedMut[n] = 0

\* the heap once every live view has been dropped, when none was leaked
Unborrowed(h) == [n \in NodeIds |-> [h[n] EXCEPT !.borrow = 0]]

\* C7: what peek_front / peek_front_mut return on a non-empty deque is what
\* pop_front returns once the views are dropped, and what peek_back /
\* peek_back_mut return is what pop_back returns.
C7_PeekIsNextPop ==
    [][ /\ ((PeekFront \/ PeekFrontMut) /\ last'.ret # None /\ NoLeaks)
           => LET o == pop_front(head', tail', Unborrowed(nodes'))
              IN ~o.panic /\ o.ret = last'.ret
        /\ ((PeekBack \/ PeekBackMut) /\ last'.ret # None /\ NoLeaks)
           => LET o == pop_back(head', tail', Unborrowed(nodes'))
              IN ~o.panic /\ o.ret = last'.ret
      ]_vars

\* peek_back_mut returned the back element of a deque of three whose
\* front element differs
C7_Witness ==
    /\ last.op = "peek_back_mut" /\ last.ret # None
    /\ Len(Contents) = 3
    /\ Contents[1] # Contents[3]
    /\ last.ret = Contents[3]
    /\ heldMut = tail /\ NoLeaks

\* C8: after peek_front_mut (peek_back_mut) and a write of w through the
\* view, pop_front (pop_back) returns w once the view is dropped; the write
\* changes the element of that one node and nothing else.
C8_WriteThrough ==
    [][ \A w \in Values :
          WriteView(w) =>
            /\ head' = head /\ tail' = tail
            /\ \E n \in NodeIds : nodes' = [nodes EXCEPT ![n].elem = w]
            /\ NoLeaks =>
                  LET h == ReleaseExclusive(nodes', heldMut')
                      o == IF heldFrom' = "peek_front_mut"
                           THEN pop_front(head', tail', h) ELSE pop_back(head', tail', h)
                  IN ~o.panic /\ o.ret = w
      ]_vars

\* the front element of a deque of three overwritten through
\* peek_front_mut with a value that no other element has
C8_Witness ==
    /\ last.op = "write"
    /\ heldFrom = "peek_front_mut" /\ heldMut = head /\ NoLeaks
    /\ Len(Contents) = 3
    /\ Contents[1] = last.arg
    /\ Contents[2] # last.arg /\ Contents[3] # last.arg

\* views on node n whose borrow has not been returned: alive or forgotten
Readers(n) == held[n] + leakedRef[n]

Writers(n) == (IF heldMut = n THEN 1 ELSE 0) + leakedMut[n]

\* C9: every node has either no write view and any number of read views, or
\* exactly one write view and no read view; the borrow flag of the node says
\* which.
C9_GuardExclusive ==
    \A n \in NodeIds :
        /\ Writers(n) <= 1
        /\ Writers(n) = 1 => Readers(n) = 0
        /\ nodes[n].borrow = (IF Writers(n) = 1 THEN -1 ELSE Readers(n))

\* the tail with a forgotten read view while the head has the write view
C9_Witness ==
    /\ head # None /\ tail # None /\ head # tail
    /\ Readers(tail) = 1 /\ Writers(tail) = 0
    /\ Writers(head) = 1 /\ Readers(head) = 0
    /\ heldMut = head

Outstanding(n) == n # None /\ Readers(n) + Writers(n) > 0

WriteOutstanding(n) == n # None /\ Writers(n) > 0

\* C10: a call that needs the write borrow of a node with an outstanding
\* view panics in that very step and returns nothing: push_front, pop_front
\* and peek_front_mut for the head, push_back, pop_back and peek_back_mut for
\* the tail, and a pop for the neighbour it relinks; peek_front and
\* peek_back panic when a write view is outstanding on their node.
C10_GuardViolationPanics ==
    [][ /\ ( /\ (\E e \in Values : PushFront(e)) \/ PopFront \/ PeekFrontMut
             /\ Outstanding(head) )
           => panicked' /\ last'.ret = None
        /\ ( /\ (\E e \in Values : PushBack(e)) \/ PopBack \/ PeekBackMut
             /\ Outstanding(tail) )
           => panicked' /\ last'.ret = None
        /\ (PopFront /\ head # None /\ Outstanding(nodes[head].next))
           => panicked' /\ last'.ret = None
        /\ (PopBack /\ tail # None /\ Outstanding(nodes[tail].prev))
           => panicked' /\ last'.ret = None
        /\ (PeekFront /\ WriteOutstanding(head)) => panicked' /\ last'.ret = None
        /\ (PeekBack /\ WriteOutstanding(tail)) => panicked' /\ last'.ret = None
      ]_vars

\* a read view forgotten on the head of a deque of two, then pop_back, which
\* relinks the head, panicked
C10_Witness ==
    /\ panicked
    /\ last.op = "pop_back" /\ last.panic /\ last.ret = None
    /\ head # None /\ leakedRef[head] = 1 /\ nodes[head].borrow = 1
    /\ nodes[head].next # None /\ nodes[nodes[head].next].next = None

\* no view is outstanding: none alive, none forgotten
NoView == NoLiveView /\ NoLeaks

\* C11: called with no view outstanding, push_front and push_back do not
\* panic (every borrow_mut they make is granted), return nothing, allocate
\* exactly one node and free none, lengthen the deque by one, and leave
\* every node unborrowed.
C11_PushNeverFails ==
    [][ ( /\ \E e \in Values : PushFront(e) \/ PushBack(e)
          /\ NoView )
        => /\ ~panicked' /\ ~last'.panic /\ last'.ret = None
           /\ Allocated \subseteq Allocated'
           /\ Cardinality(Allocated') = Cardinality(Allocated) + 1
           /\ Len(Contents') = Len(Contents) + 1
           /\ \A n \in NodeIds : nodes'[n].borrow = 0
           /\ NoView'
      ]_vars

\* push_back onto a deque of two made it a deque of three, with no view
\* outstanding and every node unborrowed
C11_Witness ==
    /\ last.op = "push_back" /\ ~last.panic /\ ~panicked
    /\ Len(Contents) = 3 /\ Contents[3] = last.arg
    /\ Contents[2] # last.arg
    /\ NoView
    /\ \A n \in NodeIds : nodes[n].borrow = 0

\* C12: drop of a deque of n nodes with no view outstanding returns without
\* panicking after n pop_front calls that returned an element; the i-th of
\* them frees the i-th node from the front and no other, so every node is
\* freed exactly once; drop leaves head and tail None and no node allocated.
C12_Drop ==
    [][ (Drop_ /\ NoView)
        => /\ mode' = "dropped" /\ ~panicked'
           /\ Len(released') = Len(Contents)
           /\ \A i \in 1..Len(released') : released'[i] = {Forward[i]}
           /\ \A i, j \in 1..Len(released') : i # j => released'[i] \cap released'[j] = {}
           /\ UNION Range(released') = Allocated
           /\ head' = None /\ tail' = None
           /\ Allocated' = {}
      ]_vars

\* a deque of three has been dropped
C12_Witness ==
    /\ mode = "dropped" /\ ~panicked /\ last.op = "drop"
    /\ Len(released) = 3
    /\ Cardinality(UNION Range(released)) = 3
    /\ head = None /\ tail = None
    /\ Allocated = {}

IsPush(ev) == ev.op = "push"

IsPopSome(ev) == ev.op = "pop" /\ ev.ret # None

Args(evs) == [i \in 1..Len(evs) |-> evs[i].arg]

\* the values pushed, in call order
Pushed(evs) == Args(SelectSeq(evs, IsPush))

\* the values the pops returned, in call order
Popped(evs) == Rets(SelectSeq(evs, IsPopSome))

\* C13: in a run of push and pop calls on a new queue the i-th pop that
\* returns a value returns the i-th pushed value, and a pop returns None
\* exactly when as many values have been popped as were pushed before it;
\* no pointer to a freed node is used.
C13_QueueFifo ==
    run = "queue" =>
        /\ ~qub
        /\ Len(Popped(hist)) <= Len(Pushed(hist))
        /\ Popped(hist) = SubSeq(Pushed(hist), 1, Len(Popped(hist)))
        /\ \A i \in 1..Len(hist) :
               hist[i].op = "pop" =>
                   LET before == SubSeq(hist, 1, i - 1)
                   IN (hist[i].ret = None) <=> (Len(Popped(before)) = Len(Pushed(before)))

\* two values pushed and the first popped; the queue drained by a second
\* pop, found empty by a third, and then a push and a pop that returned it
C13_Witness ==
    /\ run = "queue" /\ ~qub /\ Len(hist) = 5
    /\ hist[1].op = "push" /\ hist[2].op = "pop" /\ hist[2].ret = hist[1].arg
    /\ hist[3].op = "pop" /\ hist[3].ret = None
    /\ hist[4].op = "push" /\ hist[4].arg # hist[1].arg
    /\ hist[5].op = "pop" /\ hist[5].ret = hist[4].arg

\* the stack of values, top first, that a run of push and pop calls leaves
RECURSIVE AbsStack(_)
AbsStack(evs) ==
    IF evs = << >> THEN << >>
    ELSE LET pre == AbsStack(SubSeq(evs, 1, Len(evs) - 1))
             ev == evs[Len(evs)]
         IN IF ev.op = "push" THEN <<ev.arg>> \o pre
            ELSE IF ev.op = "pop" /\ pre # << >> THEN Tail(pre)
            ELSE pre

\* the elements of a stack from its head along next
StackElems(hd, h) == Elems(h, Walk(h, hd, MaxCalls + 1))

\* C14: in a run of push and pop calls on a new stack of either type each
\* pop returns the value pushed last among those not yet popped, and None
\* exactly when there is none; a pop that returns None leaves the head
\* empty; the nodes from the head hold the values not yet popped, the last
\* pushed first.
C14_StackLifo ==
    run \in {"stack", "bad_stack"} =>
        LET hd == IF run = "stack" THEN shead ELSE bhead
            h == IF run = "stack" THEN snodes ELSE bnodes
        IN /\ \A i \in 1..Len(hist) :
                  hist[i].op = "pop" =>
                      LET pre == AbsStack(SubSeq(hist, 1, i - 1))
                      IN hist[i].ret = (IF pre = << >> THEN None ELSE Head(pre))
           /\ StackElems(hd, h) = AbsStack(hist)
           /\ (last.op = "pop" /\ last.ret = None) => hd = None

\* bad_single_linked_list: two values pushed, both popped, the later one
\* first, and a third pop that found the stack empty
C14_Witness ==
    /\ run = "bad_stack" /\ Len(hist) = 5
    /\ hist[1].op = "push" /\ hist[2].op = "push" /\ hist[1].arg # hist[2].arg
    /\ hist[3].op = "pop" /\ hist[3].ret = hist[2].arg
    /\ hist[4].op = "pop" /\ hist[4].ret = hist[1].arg
    /\ hist[5].op = "pop" /\ hist[5].ret = None
    /\ bhead = None

\* the elements of the queue from its head along next
QueueElems == Elems(qnodes, Walk(qnodes, qhead, MaxCalls + 1))

\* sequence sq with its first element replaced by w
WithFirst(sq, w) == [i \in 1..Len(sq) |-> IF i = 1 THEN w ELSE sq[i]]

\* C15: on the queue and on the ok stack, peek changes nothing, returns None
\* exactly when the list is empty and otherwise returns what pop would
\* return next; a write of w through peek_mut changes the element of one
\* node, the first, and nothing else, and from then on peek and pop return
\* w; a push at the back of the queue does not change what peek returns.
C15_PeekWriteThrough ==
    [][ /\ QPeek =>
              /\ <<qhead, qtail, qnodes>>' = <<qhead, qtail, qnodes>> /\ ~qub'
              /\ (last'.ret = None) <=> (QueueElems = << >>)
              /\ last'.ret = q_pop(qhead', qtail', qnodes').ret
        /\ SPeek =>
              /\ <<shead, snodes>>' = <<shead, snodes>>
              /\ (last'.ret = None) <=> (StackElems(shead, snodes) = << >>)
              /\ last'.ret = s_pop(shead', snodes').ret
        /\ \A w \in Values :
              /\ (QPeekMut(w) /\ qhead # None) =>
                    /\ qhead' = qhead /\ qtail' = qtail /\ ~qub'
                    /\ \E n \in BoxIds : qnodes' = [qnodes EXCEPT ![n].elem = w]
                    /\ QueueElems' = WithFirst(QueueElems, w)
                    /\ q_peek(qhead', qtail', qnodes').ret = w
                    /\ q_pop(qhead', qtail', qnodes').ret = w
              /\ (QPeekMut(w) /\ qhead = None) =>
                    last'.ret = None /\ <<qhead, qtail, qnodes>>' = <<qhead, qtail, qnodes>>
              /\ (SPeekMut(w) /\ shead # None) =>
                    /\ shead' = shead
                    /\ \E n \in BoxIds : snodes' = [snodes EXCEPT ![n].elem = w]
                    /\ StackElems(shead', snodes') = WithFirst(StackElems(shead, snodes), w)
                    /\ s_peek(shead', snodes').ret = w
                    /\ s_pop(shead', snodes').ret = w
              /\ (SPeekMut(w) /\ shead = None) =>
                    last'.ret = None /\ <<shead, snodes>>' = <<shead, snodes>>
        /\ \A e \in Values :
              (QPush(e) /\ qhead # None) =>
                  q_peek(qhead', qtail', qnodes').ret = q_peek(qhead, qtail, qnodes).ret
      ]_vars

\* the front of a queue of three overwritten through peek_mut with a value
\* that differs from the one it had and from the one behind it
C15_Witness ==
    /\ run = "queue" /\ ~qub
    /\ last.op = "peek_mut" /\ last.ret # None /\ last.ret # last.arg
    /\ Len(QueueElems) = 3
    /\ QueueElems[1] = last.arg /\ QueueElems[2] # last.arg

\* the elements of the list with head hd, in heap h
PElemsFrom(hd, h) == Elems(h, Walk(h, hd, MaxNodes + 1))

\* the elements of persistent list l, from its head
PElems(l) == PElemsFrom(plists[l].head, pnodes)

\* every list that was alive is alive and has the elements it had
ListsKept == \A k \in ListIds : plists[k].live => (plists'[k].live /\ PElems(k)' = PElems(k))

\* C16: prepend and tail leave every existing list, the one they are called
\* on included, with the elements it had; the list prepend(l, x) returns has
\* head() = x and a tail() with the elements of l; the list tail(l) returns
\* has the elements of l but the first, and is empty for an empty l; head(l)
\* changes no list and returns the first element of l, None for an empty l.
C16_Persistent ==
    [][ \A l \in ListIds :
          /\ \A x \in Values :
                (last' = PEvent("prepend", l, x, None) /\ PPrepend(l, x)) =>
                    LET t == NewList
                        o == p_tail(plists'[t].head, pnodes')
                    IN /\ ListsKept
                       /\ plists'[t].live
                       /\ p_head(plists'[t].head, pnodes').ret = x
                       /\ PElemsFrom(o.new, o.nodes) = PElems(l)
                       /\ PElemsFrom(plists'[t].head, pnodes') = <<x>> \o PElems(l)
          /\ (last' = PEvent("tail", l, None, None) /\ PTail(l)) =>
                LET t == NewList
                IN /\ ListsKept
                   /\ plists'[t].live
                   /\ PElemsFrom(plists'[t].head, pnodes')
                          = (IF PElems(l) = << >> THEN << >> ELSE Tail(PElems(l)))
                   /\ plists[l].head = None => plists'[t].head = None
          /\ (last'.op = "head" /\ last'.on = l /\ PHead(l)) =>
                /\ ListsKept
                /\ last'.ret = (IF PElems(l) = << >> THEN None ELSE PElems(l)[1])
                /\ plists[l].head = None => last'.ret = None
      ]_vars

\* prepend was called on a list of one element whose node a second list
\* shares; the returned list has two elements and shares that node too
C16_Witness ==
    /\ run = "persistent" /\ last.op = "prepend"
    /\ \E l, k, t \in ListIds :
          /\ l # k /\ l # t /\ k # t
          /\ plists[l].live /\ plists[k].live /\ plists[t].live
          /\ plists[l].head # None /\ plists[k].head = plists[l].head
          /\ plists[t].head # None /\ pnodes[plists[t].head].next = plists[l].head
          /\ Len(PElems(t)) = 2 /\ PElems(t)[1] # PElems(t)[2]
          /\ pnodes[plists[l].head].strong = 3

\* sequence sq without its last element
Front(sq) == SubSeq(sq, 1, Len(sq) - 1)

\* the abstract sequence after call ev on abstract sequence sq
AbsStep(sq, ev) ==
    IF ev.op = "push_front" THEN <<ev.arg>> \o sq
    ELSE IF ev.op = "push_back" THEN Append(sq, ev.arg)
    ELSE IF ev.op \in {"pop_front", "next"} /\ sq # << >> THEN Tail(sq)
    ELSE IF ev.op \in {"pop_back", "next_back"} /\ sq # << >> THEN Front(sq)
    ELSE sq

\* what call ev returns on abstract sequence sq
AbsRet(sq, ev) ==
    IF ev.op \in {"pop_front", "next"} /\ sq # << >> THEN Head(sq)
    ELSE IF ev.op \in {"pop_back", "next_back"} /\ sq # << >> THEN sq[Len(sq)]
    ELSE None

\* the abstract sequence after the calls evs on the empty sequence
RECURSIVE AbsDeque(_)
AbsDeque(evs) ==
    IF evs = << >> THEN << >> ELSE AbsStep(AbsDeque(Front(evs)), evs[Len(evs)])

\* C17: after any run of push_front, push_back, pop_front and pop_back calls
\* from the empty deque (next and next_back of the iterator being pop_front
\* and pop_back) no call has panicked, the elements of the node chain from
\* head are the abstract sequence the calls produce, and every call returned
\* what the abstract sequence returns.
C17_RefinesSequence ==
    /\ ~panicked
    /\ Contents = AbsDeque(hist)
    /\ \A i \in 1..Len(hist) :
           /\ ~hist[i].panic
           /\ hist[i].ret = AbsRet(AbsDeque(SubSeq(hist, 1, i - 1)), hist[i])

\* push_back a, push_back b, pop_front returned a; then push_front c and
\* pop_back returned b, leaving c
C17_Witness ==
    /\ Len(hist) = 5 /\ mode = "list"
    /\ hist[1].op = "push_back" /\ hist[2].op = "push_back" /\ hist[1].arg # hist[2].arg
    /\ hist[3].op = "pop_front" /\ hist[3].ret = hist[1].arg
    /\ hist[4].op = "push_front"
    /\ hist[5].op = "pop_back" /\ hist[5].ret = hist[2].arg
    /\ Contents = <<hist[4].arg>>

\* C18: when pop_front or pop_back is called on a non-empty deque with no
\* view outstanding, Rc::try_unwrap is reached for the node that was the
\* head (tail), that node has exactly one owner left, neither List field
\* and no node refers to it any more, and the call returns its element
\* without panicking; so too when the node was both head and tail.
C18_PopExtracts ==
    [][ /\ (PopFront /\ NoView /\ head # None)
           => LET o == pop_front(head, tail, nodes)
              IN /\ o.unwrap = [node |-> head, owners |-> 1, refs |-> 0]
                 /\ ~panicked' /\ last'.ret = nodes[head].elem
                 /\ nodes'[head].strong = 0
        /\ (PopBack /\ NoView /\ tail # None)
           => LET o == pop_back(head, tail, nodes)
              IN /\ o.unwrap = [node |-> tail, owners |-> 1, refs |-> 0]
                 /\ ~panicked' /\ last'.ret = nodes[tail].elem
                 /\ nodes'[tail].strong = 0
      ]_vars

\* pop_back returned the element of the only node of the deque, which both
\* head and tail had pointed to
C18_Witness ==
    /\ last.op = "pop_back" /\ last.ret # None /\ ~last.panic /\ ~panicked
    /\ head = None /\ tail = None
    /\ Allocated = {}
    /\ NoView

\* the references to node n: the List fields and the next and prev fields
\* of allocated nodes that hold it
RefSet(n) ==
    (IF head = n THEN {<<"head", None>>} ELSE {})
        \cup (IF tail = n THEN {<<"tail", None>>} ELSE {})
        \cup {<<"next", m>> : m \in {k \in Allocated : nodes[k].next = n}}
        \cup {<<"prev", m>> : m \in {k \in Allocated : nodes[k].prev = n}}

\* the owners the i-th node from the front is to have: the next field of
\* the node before it, the prev field of the node after it, head when it is
\* first and tail when it is last
OwnersAt(i) ==
    (IF i = 1 THEN {<<"head", None>>} ELSE {<<"next", Forward[i - 1]>>})
        \cup (IF i = Len(Forward) THEN {<<"tail", None>>} ELSE {<<"prev", Forward[i + 1]>>})

\* C19: between calls every allocated node is on the chain from head, the
\* references to the i-th node of the chain are exactly those of its two
\* neighbours and of head and tail when it is an endpoint, and its strong
\* count is the number of these references: nothing else owns a node, with
\* or without views outstanding.
C19_Ownership ==
    ~panicked =>
        /\ Allocated = Range(Forward)
        /\ \A i \in 1..Len(Forward) :
               /\ RefSet(Forward[i]) = OwnersAt(i)
               /\ nodes[Forward[i]].strong = Cardinality(RefSet(Forward[i]))
        /\ \A n \in NodeIds \ Allocated : RefSet(n) = {}

\* a deque of three nodes, the first with a forgotten read view, each node
\* with two owners
C19_Witness ==
    /\ ~panicked /\ mode = "list"
    /\ Len(Forward) = 3
    /\ leakedRef[head] = 1
    /\ \A i \in 1..3 : nodes[Forward[i]].strong = 2
    /\ RefSet(Forward[2]) = {<<"next", head>>, <<"prev", tail>>}

\* C20: views on other nodes never make a call panic.  peek_front and
\* peek_back succeed whatever read views are outstanding, on their own node
\* included, as long as it has no write view, and return its element; so on
\* a deque of one node both succeed and return the same element.  A call
\* that borrows mutably succeeds when the nodes it borrows have no view:
\* the head for push_front and peek_front_mut, the tail for push_back and
\* peek_back_mut, the end node and its neighbour for a pop.
C20_GuardPerNode ==
    [][ /\ (PeekFront /\ head # None /\ ~WriteOutstanding(head))
           => /\ ~panicked' /\ last'.ret = nodes[head].elem
              /\ nodes'[head].borrow = nodes[head].borrow + 1
        /\ (PeekBack /\ tail # None /\ ~WriteOutstanding(tail))
           => /\ ~panicked' /\ last'.ret = nodes[tail].elem
              /\ nodes'[tail].borrow = nodes[tail].borrow + 1
        /\ (PeekFrontMut /\ ~Outstanding(head)) => ~panicked'
        /\ (PeekBackMut /\ ~Outstanding(tail)) => ~panicked'
        /\ ((\E e \in Values : PushFront(e)) /\ ~Outstanding(head)) => ~panicked'
        /\ ((\E e \in Values : PushBack(e)) /\ ~Outstanding(tail)) => ~panicked'
        /\ (PopFront /\ head # None /\ ~Outstanding(head) /\ ~Outstanding(nodes[head].next))
           => ~panicked' /\ last'.ret = nodes[head].elem
        /\ (PopBack /\ tail # None /\ ~Outstanding(tail) /\ ~Outstanding(nodes[tail].prev))
           => ~panicked' /\ last'.ret = nodes[tail].elem
      ]_vars

\* with a forgotten read view on the head of a deque of three, pop_back,
\* which borrows the tail and the middle node, returned an element
C20_Witness ==
    /\ last.op = "pop_back" /\ last.ret # None /\ ~last.panic /\ ~panicked
    /\ Len(Forward) = 2
    /\ leakedRef[head] = 1 /\ nodes[head].borrow = 1
    /\ nodes[tail].borrow = 0

\* the nodes of the queue, from head along next
QueueWalk == Walk(qnodes, qhead, MaxCalls + 1)

\* head is null iff tail is null; a non-null tail is the last node reached
\* from head, every node reached is a live allocation, and tail.next is null
QueueLinked ==
    /\ ~qub
    /\ (qhead = None) <=> (qtail = None)
    /\ \A i \in 1..Len(QueueWalk) : qnodes[QueueWalk[i]].state = "live"
    /\ qhead # None =>
          /\ QueueWalk[Len(QueueWalk)] = qtail
          /\ qnodes[qtail].next = None

\* C21: after every completed push and pop of the raw-pointer queue, head is
\* null iff tail is null, a non-null tail is the last node reachable from
\* head along next and its next is null; the pop of the last element sets
\* both head and tail to null, and a push on null tail makes the new node
\* head and tail and writes to no other allocation, freed ones included.
C21_HeadTail ==
    /\ [](run = "queue" => QueueLinked)
    /\ [][ /\ (QPop /\ qhead # None /\ qnodes[qhead].next = None)
                => (qhead' = None /\ qtail' = None)
           /\ (QPop /\ qhead # None /\ qnodes[qhead].next # None)
                => (qhead' = qnodes[qhead].next /\ qtail' = qtail)
           /\ \A e \in Values :
                (QPush(e) /\ qtail = None) =>
                    /\ qhead' = FreshBox(qnodes) /\ qtail' = qhead'
                    /\ \A n \in BoxIds \ {qhead'} : qnodes'[n] = qnodes[n]
           /\ \A e \in Values :
                (QPush(e) /\ qtail # None) =>
                    /\ qhead' = qhead /\ qtail' = FreshBox(qnodes)
                    /\ qnodes'[qtail].next = qtail'
         ]_vars

\* a queue that ran empty, its only node freed, was pushed to again: the
\* new node is head and tail
C21_Witness ==
    /\ run = "queue" /\ last.op = "push" /\ ~qub
    /\ Len(hist) = 3 /\ hist[1].op = "push" /\ hist[2].op = "pop" /\ hist[2].ret = hist[1].arg
    /\ qnodes[1].state = "freed"
    /\ qhead = 2 /\ qtail = 2 /\ qnodes[2].state = "live"

\* the allocations in state st
BoxesIn(st) == {n \in BoxIds : qnodes[n].state = st}

\* push has allocated one node per call; while the queue exists the live
\* nodes are the ones reached from head and the freed ones are one per
\* element popped; once it is dropped none is live
QueueAllocated ==
    /\ ~qub
    /\ Cardinality(BoxIds \ BoxesIn("unused")) = Len(Pushed(hist))
    /\ mode = "list" =>
          /\ BoxesIn("live") = Range(QueueWalk)
          /\ Cardinality(BoxesIn("freed")) = Len(Popped(hist))
    /\ mode = "dropped" =>
          /\ BoxesIn("live") = {}
          /\ Cardinality(BoxesIn("freed")) = Len(Pushed(hist))
          /\ qhead = None

\* C22: over every run of push and pop calls on the raw-pointer queue that
\* ends in drop, no pointer to a freed or null allocation is dereferenced;
\* a freed node is never freed or written again; a pop that returns an
\* element frees the node that held it and no other, a pop on the empty
\* queue frees none; drop frees every node that is still live, so each node
\* push allocated is freed once and none remains allocated after drop.
C22_FreedOnce ==
    /\ [](run = "queue" => QueueAllocated)
    /\ [][ run = "queue" =>
             /\ \A n \in BoxesIn("freed") : qnodes'[n] = qnodes[n]
             /\ \A n \in BoxesIn("live") : qnodes'[n].state \in {"live", "freed"}
             /\ (QPop /\ qhead # None) =>
                    /\ last'.ret = qnodes[qhead].elem
                    /\ BoxesIn("freed")' = BoxesIn("freed") \cup {qhead}
             /\ (QPop /\ qhead = None) =>
                    (last'.ret = None /\ qnodes' = qnodes)
             /\ QDrop =>
                    /\ BoxesIn("freed")' = BoxesIn("freed") \cup BoxesIn("live")
                    /\ BoxesIn("live")' = {}
         ]_vars

\* three pushes and one pop, then drop with two nodes in the queue: the
\* three allocations are freed
C22_Witness ==
    /\ run = "queue" /\ mode = "dropped" /\ last.op = "drop" /\ ~qub
    /\ Len(Pushed(hist)) = 3 /\ Len(Popped(hist)) = 1
    /\ BoxesIn("freed") = {1, 2, 3}

\* the nodes the live lists pl reach in h
PReach(pl, h) == Range(PWalks(pl, h, 1))

\* the handles on node n: the heads of live lists and the next fields of
\* allocated nodes that point to it
PHandles(pl, h, n) ==
    Cardinality({l \in ListIds : pl[l].live /\ pl[l].head = n})
        + Cardinality({m \in PNodeIds : h[m].strong > 0 /\ h[m].next = n})

\* every node's strong count is the number of handles on it, every allocated
\* node is reached by a live list, and a released node holds nothing
PersistOwned ==
    \A n \in PNodeIds :
       /\ pnodes[n].strong = PHandles(plists, pnodes, n)
       /\ pnodes[n].strong > 0 => n \in PReach(plists, pnodes)
       /\ pnodes[n].strong = 0 => pnodes[n] = PFree

\* the leading nodes of chain w that have a single owner
RECURSIVE POwned(_, _)
POwned(h, w) ==
    IF w = << >> THEN << >>
    ELSE IF h[Head(w)].strong # 1 THEN << >>
    ELSE <<Head(w)>> \o POwned(h, Tail(w))

\* the number of allocated nodes of h
PCount(h) == Cardinality({n \in PNodeIds : h[n].strong > 0})

\* C23: the drop of persistent list l releases the leading nodes of l that
\* have a single owner, which no other live list reaches, and stops at the
\* first node with another owner, whose count goes down by one and which
\* keeps its element and link; no other node changes, so every other live
\* list stays live with the elements it had.  In every state each node's
\* count is the number of lists and nodes pointing at it and every allocated
\* node is reached by a live list: a node is released when the last list
\* reaching it is dropped, and a released node has no handle left through
\* which it could be released again.
C23_Teardown ==
    /\ [](run = "persistent" => PersistOwned)
    /\ [][ \A l \in ListIds :
             (last' = PEvent("drop", l, None, None) /\ PDrop(l)) =>
                LET w == Walk(pnodes, plists[l].head, MaxNodes + 1)
                    own == POwned(pnodes, w)
                    o == p_drop(plists[l].head, pnodes)
                IN /\ \A n \in Range(own) :
                         /\ o.nodes[n] = PFree
                         /\ \A k \in ListIds \ {l} :
                               n \notin Range(Walk(pnodes, plists[k].head, MaxNodes + 1))
                   /\ Len(own) < Len(w) =>
                         LET stop == w[Len(own) + 1]
                         IN /\ pnodes[stop].strong > 1
                            /\ o.nodes[stop] = [pnodes[stop] EXCEPT !.strong = @ - 1]
                   /\ \A n \in PNodeIds \ (Range(own) \cup {w[i] : i \in {Len(own) + 1} \cap 1..Len(w)}) :
                         o.nodes[n] = pnodes[n]
                   /\ ~plists'[l].live
                   /\ PCount(pnodes') = PCount(pnodes) - Len(own)
                   /\ \A k \in ListIds \ {l} :
                         plists[k].live => (plists'[k].live /\ PElems(k)' = PElems(k))
         ]_vars

\* list 3 was made by prepend on list 2, which holds one node; the drop of
\* list 3 released its first node and stopped at the node list 2 shares
C23_Witness ==
    /\ run = "persistent" /\ Len(hist) = 3
    /\ hist[1].op = "prepend" /\ hist[1].on = 1
    /\ hist[2].op = "prepend" /\ hist[2].on = 2
    /\ hist[3].op = "drop" /\ hist[3].on = 3
    /\ ~plists[3].live /\ plists[2].live
    /\ PCount(pnodes) = 1
    /\ pnodes[plists[2].head].strong = 1
    /\ PElems(2) = <<hist[1].arg>>

====
